---- MODULE Spec2Model ----
(***************************************************************************)
(* A model of the newsletter ingestion pipeline:                           *)
(*   tools/scrape_bens_bites.py  (RSS adapter)                             *)
(*   tools/scrape_rundown.py     (HTML adapter)                            *)
(*   tools/run_scrapers.py       (orchestrator: merge, dedup, sort)        *)
(* The network, the feed document, the homepage and the article pages are  *)
(* inputs fixed by Init; the run itself is then a sequence of steps.       *)
(***************************************************************************)
EXTENDS Integers, Sequences, FiniteSets, TLC

VARIABLES
    pc,          \* position of the orchestrator / the adapter it is running
    clock,       \* the wall clock, seconds since the Unix epoch (UTC)
    rssNet,      \* what urlopen/read does for RSS_URL
    rssXml,      \* the feed document served at RSS_URL
    homeNet,     \* what urlopen/read does for HOME_URL
    homeHtml,    \* the homepage: its start tags in document order
    pages,       \* article url -> [net, html] served there
    bb,          \* locals of scrape_bens_bites.run
    rd,          \* locals of scrape_rundown.run
    files,       \* the output directory: file name -> JSON value written
    errlog,      \* errors.log: the sequence of lines appended
    net,         \* history: the sequence of network and sleep events of the run
    orch         \* locals of run_scrapers.run

vars == <<pc, clock, rssNet, rssXml, homeNet, homeHtml, pages, bb, rd, files,
          errlog, net, orch>>

world == <<rssNet, rssXml, homeNet, homeHtml, pages>>

----------------------------------------------------------------------------
(* Values *)

(* Python's None, for values that are otherwise records. *)
NoneVal == [none |-> TRUE]

(* None for a value that is otherwise a string. *)
NoneStr == "<None>"

WINDOW_HOURS == 48

HourSecs == 3600

DaySecs == 86400

MAX_CANDIDATES == 15

(* The instant the run starts: 2026-02-21T12:00:00Z. *)
Day_2026_02_20 == 56 * 365 + 14 + 31 + 19

Day_2019_01_01 == 49 * 365 + 12

Clock0 == (Day_2026_02_20 + 1) * DaySecs + 12 * HourSecs

(* A datetime: wall-clock seconds and, when aware, a UTC offset in seconds. *)
DateTime(wall, tz) == [wall |-> wall, tz |-> tz, aware |-> TRUE]

Naive(wall) == [wall |-> wall, tz |-> 0, aware |-> FALSE]

IsAware(dt) == dt.aware

(* datetime.replace(tzinfo=timezone.utc) *)
ReplaceUtc(dt) == DateTime(dt.wall, 0)

(* The point in time an aware datetime denotes. *)
Instant(dt) == dt.wall - dt.tz

(* aware < aware, as datetime compares: by instant. *)
DtLess(a, b) == Instant(a) < Instant(b)

(* timedelta(hours=h) subtracted from an aware datetime. *)
MinusHours(dt, h) == DateTime(dt.wall - h * HourSecs, dt.tz)

(* datetime.now(timezone.utc) *)
NowUtc == DateTime(clock, 0)

----------------------------------------------------------------------------
(* datetime.isoformat(): "YYYY-MM-DDTHH:MM:SS" then the sign and the offset. *)
(* The fixed-width date-time field orders as its wall seconds do; the sign    *)
(* is kept as its character code ('+' = 43, '-' = 45), the offset as its      *)
(* absolute value, so that the string order below is the order of str.        *)

PlusChar == 43

MinusChar == 45

Abs(n) == IF n < 0 THEN -n ELSE n

IsoFormat(dt) ==
    IF IsAware(dt)
    THEN <<dt.wall, IF dt.tz < 0 THEN MinusChar ELSE PlusChar, Abs(dt.tz)>>
    ELSE <<dt.wall>>

(* str < str on two isoformat strings: field by field, a proper prefix first. *)
RECURSIVE StrLess(_, _)
StrLess(s, t) ==
    IF s = <<>> THEN t # <<>>
    ELSE IF t = <<>> THEN FALSE
    ELSE IF Head(s) # Head(t) THEN Head(s) < Head(t)
    ELSE StrLess(Tail(s), Tail(t))

(* The point in time an isoformat string denotes. *)
IsoInstant(s) ==
    IF Len(s) = 1 THEN s[1]
    ELSE s[1] - (IF s[2] = MinusChar THEN -s[3] ELSE s[3])

EPOCH_KEY == <<0, PlusChar, 0>>

----------------------------------------------------------------------------
(* Text.  A url or an href is a sequence of characters; a host prefix is   *)
(* kept as one chunk.                                                      *)

HOME_URL == <<"https://www.therundown.ai">>

BB_HOST == <<"https://www.bensbites.com">>

SlugChars ==
    {"a", "b", "c", "d", "e", "f", "g", "h", "i", "j", "k", "l", "m", "n", "o",
     "p", "q", "r", "s", "t", "u", "v", "w", "x", "y", "z", "0", "1", "2", "3",
     "4", "5", "6", "7", "8", "9", "-"}

(* re.match(r'^/p/[a-z0-9\-]+$', href): '$' also matches before a final newline. *)
IsArticlePath(href) ==
    /\ Len(href) >= 4
    /\ href[1] = "/" /\ href[2] = "p" /\ href[3] = "/"
    /\ LET last == IF href[Len(href)] = "\n" THEN Len(href) - 1 ELSE Len(href)
       IN  /\ last >= 4
           /\ \A i \in 4..last : href[i] \in SlugChars

(* hashlib.sha256(url.encode()).hexdigest()[:16]: a digest of the bytes of  *)
(* the url, cut to a fixed width.  The digest here is a polynomial hash of  *)
(* the characters; that it separates the urls of the model is checked, not  *)
(* assumed (IdsSeparateUrls).                                               *)
Alphabet ==
    <<"/", "\n", "#", "U", "a", "b", "c", "d", "e", "f", "g", "h", "i", "j",
      "k", "l", "m", "n", "o", "p", "q", "r", "s", "t", "u", "v", "w", "x",
      "y", "z", "0", "1", "2", "3", "4", "5", "6", "7", "8", "9", "-",
      "https://www.therundown.ai", "https://www.bensbites.com">>

CharCode(c) == CHOOSE i \in 1..Len(Alphabet) : Alphabet[i] = c

HashBase == 131

HashMod == 65536

RECURSIVE Digest(_, _)
Digest(h, s) ==
    IF s = <<>> THEN h
    ELSE Digest((h * HashBase + CharCode(Head(s))) % HashMod, Tail(s))

make_id(url) == Digest(7, url)

----------------------------------------------------------------------------
(* Date strings and datetime.strptime.                                     *)
(* A date string is kept by its fields: the layout of the date part        *)
(* (shape), the spelling of the month (mon), the four year digits (year),  *)
(* the wall-clock second the date part denotes (wall, InvalidWall when no   *)
(* such calendar date exists, e.g. Feb 30) and the zone suffix.             *)

InvalidWall == -1

ZNum(off) == [k |-> "num", off |-> off]     \* "+0500", "+05:00"

ZLit == [k |-> "Z", off |-> 0]              \* "Z"

ZName == [k |-> "name", off |-> 0]          \* "GMT", "UTC"

ZNone == [k |-> "none", off |-> 0]

DateStr(shape, mon, year, wall, zone) ==
    [shape |-> shape, mon |-> mon, year |-> year, wall |-> wall, zone |-> zone]

Fmt(shape, mon, zone) == [shape |-> shape, mon |-> mon, zone |-> zone]

(* %b takes the abbreviated month name, %B the full one ("May" is both). *)
MonMatches(f, m) == f = "-" \/ m = "both" \/ (f = "b" /\ m = "abbr") \/ (f = "B" /\ m = "full")

(* %z takes a numeric offset or "Z"; %Z a zone name; a literal Z only "Z". *)
ZoneMatches(f, z) ==
    CASE f = "%z" -> z.k \in {"num", "Z"}
      [] f = "%Z" -> z.k = "name"
      [] f = "Z"  -> z.k = "Z"
      [] OTHER    -> z.k = "none"

(* Whether strptime(ds, f) succeeds (otherwise it raises ValueError). *)
StrptimeOk(ds, f) ==
    /\ ds # NoneVal
    /\ ds.shape = f.shape
    /\ MonMatches(f.mon, ds.mon)
    /\ ZoneMatches(f.zone, ds.zone)
    /\ ds.wall # InvalidWall

(* Its result: aware only when %z gave an offset. *)
Strptime(ds, f) ==
    IF f.zone = "%z" THEN DateTime(ds.wall, ds.zone.off) ELSE Naive(ds.wall)

(* The first format of fmts that parses ds, as the for/try/except loops do. *)
RECURSIVE FirstParse(_, _)
FirstParse(ds, fmts) ==
    IF fmts = <<>> THEN NoneVal
    ELSE IF StrptimeOk(ds, Head(fmts)) THEN Strptime(ds, Head(fmts))
    ELSE FirstParse(ds, Tail(fmts))

RSS_FORMATS ==
    << Fmt("a, d b Y H:M:S", "b", "%z"),
       Fmt("a, d b Y H:M:S", "b", "%Z"),
       Fmt("d b Y H:M:S", "b", "%z") >>

parse_rss_date(date_str) == FirstParse(date_str, RSS_FORMATS)

ARTICLE_FORMATS ==
    << Fmt("Y-m-dTH:M:S", "-", "%z"),
       Fmt("Y-m-dTH:M:S", "-", "Z"),
       Fmt("Y-m-d", "-", ""),
       Fmt("M d Y", "b", ""),
       Fmt("M d Y", "B", ""),
       Fmt("M d, Y", "b", ""),
       Fmt("M d, Y", "B", ""),
       Fmt("M. d Y", "b", "") >>

parse_article_date(raw) ==
    LET dt == FirstParse(raw, ARTICLE_FORMATS)
    IN  IF dt = NoneVal THEN NoneVal
        ELSE IF ~IsAware(dt) THEN ReplaceUtc(dt) ELSE dt

----------------------------------------------------------------------------
(* Exceptions of urlopen()/read().  URLError is what a refused connection,  *)
(* an unresolved host or a timed-out connect raises; HTTPError (a subclass  *)
(* of URLError) a non-2xx status; a timeout while the response is read      *)
(* raises TimeoutError, which is an OSError but no URLError.                *)

NetOutcomes == {"ok", "URLError", "HTTPError", "TimeoutError"}

IsURLError(exc) == exc \in {"URLError", "HTTPError"}

LogLine(src, msg) == [src |-> src, msg |-> msg]

----------------------------------------------------------------------------
(* scrape_bens_bites.py *)

Truthy(str) == str # NoneStr /\ str # ""

Article(source, title, url, pub_date) ==
    [id |-> make_id(url), source |-> source, title |-> title, url |-> url,
     published_at |-> IsoFormat(pub_date)]

(* One pass of the body of the for loop of parse_articles over item:        *)
(* [keep, article, log].                                                    *)
RssItem(item, cutoff) ==
    LET pub_date == parse_rss_date(item.pubDate)
        aware    == IF ~IsAware(pub_date) THEN ReplaceUtc(pub_date) ELSE pub_date
    IN  IF ~Truthy(item.title) \/ item.link = <<>>
        THEN [keep |-> FALSE, log |-> <<>>]
        ELSE IF pub_date = NoneVal
        THEN [keep |-> FALSE,
              log |-> <<LogLine("bens_bites", "Could not parse date")>>]
        ELSE IF DtLess(aware, cutoff)
        THEN [keep |-> FALSE, log |-> <<>>]
        ELSE [keep |-> TRUE, log |-> <<>>,
              article |-> Article("bens_bites", item.title, item.link, aware)]

RECURSIVE RssItems(_, _)
RssItems(items, cutoff) ==
    IF items = <<>> THEN [articles |-> <<>>, log |-> <<>>]
    ELSE LET one  == RssItem(Head(items), cutoff)
             rest == RssItems(Tail(items), cutoff)
         IN  [articles |-> (IF one.keep THEN <<one.article>> ELSE <<>>) \o rest.articles,
              log |-> one.log \o rest.log]

parse_articles(xml_content, cutoff) ==
    CASE xml_content.kind = "malformed" ->
            [articles |-> <<>>, log |-> <<LogLine("bens_bites", "Failed to parse XML")>>]
      [] xml_content.kind = "nochannel" ->
            [articles |-> <<>>, log |-> <<LogLine("bens_bites", "No <channel> found")>>]
      [] OTHER -> RssItems(xml_content.items, cutoff)

SourceResult(now, articles) ==
    [scraped_at |-> IsoFormat(now), window_hours |-> WINDOW_HOURS,
     article_count |-> Len(articles), articles |-> articles]

ErrorResult(now, msg) ==
    [scraped_at |-> IsoFormat(now), window_hours |-> WINDOW_HOURS,
     article_count |-> 0, articles |-> <<>>, error |-> msg]

WriteFile(name, value) == files' = (name :> value) @@ files

BB_Start ==
    /\ pc = "bb_run"
    /\ bb' = [bb EXCEPT !.now = NowUtc, !.cutoff = MinusHours(NowUtc, WINDOW_HOURS)]
    /\ pc' = "bb_fetch"
    /\ UNCHANGED <<clock, world, rd, files, errlog, net, orch>>

(* fetch_rss returns the decoded body. *)
BB_FetchOk ==
    /\ pc = "bb_fetch" /\ rssNet = "ok"
    /\ bb' = [bb EXCEPT !.xml_content = rssXml]
    /\ net' = Append(net, <<"fetch_rss">>)
    /\ clock' = clock + 1
    /\ pc' = "bb_parse"
    /\ UNCHANGED <<world, rd, files, errlog, orch>>

(* fetch_rss: except URLError -> log_error, return None. *)
BB_FetchCaught ==
    /\ pc = "bb_fetch" /\ rssNet # "ok" /\ IsURLError(rssNet)
    /\ bb' = [bb EXCEPT !.xml_content = NoneVal]
    /\ errlog' = Append(errlog, LogLine("bens_bites", "Failed to fetch RSS"))
    /\ net' = Append(net, <<"fetch_rss">>)
    /\ clock' = clock + 1
    /\ pc' = "bb_failed"
    /\ UNCHANGED <<world, rd, files, orch>>

(* fetch_rss: an exception that is no URLError leaves fetch_rss, run and    *)
(* run_scrapers.run, none of which has a handler for it.                    *)
BB_FetchRaises ==
    /\ pc = "bb_fetch" /\ rssNet # "ok" /\ ~IsURLError(rssNet)
    /\ net' = Append(net, <<"fetch_rss">>)
    /\ clock' = clock + 1
    /\ orch' = [orch EXCEPT !.raised = rssNet, !.raised_in = "bens_bites"]
    /\ pc' = "raised"
    /\ UNCHANGED <<world, bb, rd, files, errlog>>

BB_Failed ==
    /\ pc = "bb_failed"
    /\ bb' = [bb EXCEPT !.result = ErrorResult(bb.now, "Failed to fetch RSS feed")]
    /\ pc' = "bb_save"
    /\ UNCHANGED <<clock, world, rd, files, errlog, net, orch>>

BB_Parse ==
    /\ pc = "bb_parse"
    /\ LET out == parse_articles(bb.xml_content, bb.cutoff)
       IN  /\ bb' = [bb EXCEPT !.result = SourceResult(bb.now, out.articles)]
           /\ errlog' = errlog \o out.log
    /\ pc' = "bb_save"
    /\ UNCHANGED <<clock, world, rd, files, net, orch>>

(* json.dump to bens_bites.json, return result (to run_scrapers.run). *)
BB_Save ==
    /\ pc = "bb_save"
    /\ WriteFile("bens_bites.json", bb.result)
    /\ orch' = [orch EXCEPT !.results = Append(@, bb.result), !.bb_result = bb.result]
    /\ pc' = "rd_run"
    /\ UNCHANGED <<clock, world, bb, rd, errlog, net>>

----------------------------------------------------------------------------
(* scrape_rundown.py *)

(* ArticleLinkParser.handle_starttag, fed the start tags of the homepage. *)
RECURSIVE LinkParserFeed(_, _)
LinkParserFeed(links, tags) ==
    IF tags = <<>> THEN links
    ELSE LET t        == Head(tags)
             full_url == HOME_URL \o t.href
             seen     == \E i \in 1..Len(links) : links[i] = full_url
         IN  LinkParserFeed(
                 IF t.tag = "a" /\ t.href # <<>> /\ IsArticlePath(t.href) /\ ~seen
                 THEN Append(links, full_url) ELSE links,
                 Tail(tags))

(* links[:15] *)
FirstN(seq, n) == SubSeq(seq, 1, IF Len(seq) < n THEN Len(seq) ELSE n)

(* Faulty variant: the candidate list is not cut. *)
ArticleUrlsMutNoSlice(html) == LinkParserFeed(<<>>, html)

ArticleUrls(html) == FirstN(LinkParserFeed(<<>>, html), MAX_CANDIDATES)

(* '202' in content, for the date strings of the model: the only digits    *)
(* that can spell 202 in them are the first three of the year.             *)
Contains202(content) == content.year \div 10 = 202

EmptyStr == DateStr("empty", "-", 0, InvalidWall, ZNone)

(* ArticleMetaParser.handle_starttag for a meta tag. *)
HandleMeta(st, e) ==
    IF e.name \in {"og:title", "twitter:title"} /\ st.title = NoneStr
    THEN [st EXCEPT !.title = e.content]
    ELSE IF e.name \in {"og:description", "twitter:description", "description"}
            /\ st.description = NoneStr
    THEN [st EXCEPT !.description = e.content]
    ELSE IF e.name \in {"article:published_time", "og:article:published_time"}
    THEN (IF e.content # EmptyStr /\ Contains202(e.content)
          THEN [st EXCEPT !.published_at_meta = e.content] ELSE st)
    ELSE st

(* re.findall of the month-day-year pattern on one text node: the date-like *)
(* fragments of the node, in order, each rewritten as "Mon d, YYYY".        *)
HumanShapes == {"M d Y", "M d, Y", "M. d Y", "M. d, Y"}

RECURSIVE DateMatches(_)
DateMatches(frags) ==
    IF frags = <<>> THEN <<>>
    ELSE LET f == Head(frags)
         IN  (IF f.shape \in HumanShapes /\ f.year \div 100 = 20
              THEN <<DateStr("M d, Y", f.mon, f.year, f.wall, ZNone)>>
              ELSE <<>>) \o DateMatches(Tail(frags))

(* handle_data is called for every text node, whatever element holds it. *)
HandleData(st, e) == [st EXCEPT !.body_dates = @ \o DateMatches(e.frags)]

ParserInit ==
    [title |-> NoneStr, description |-> NoneStr, published_at_meta |-> NoneVal,
     body_dates |-> <<>>]

(* ArticleMetaParser.feed: the events of the page in document order. *)
RECURSIVE MetaParserFeed(_, _)
MetaParserFeed(st, html) ==
    IF html = <<>> THEN st
    ELSE MetaParserFeed(
             IF Head(html).ev = "meta" THEN HandleMeta(st, Head(html))
             ELSE HandleData(st, Head(html)),
             Tail(html))

get_best_date(st) ==
    IF st.body_dates # <<>> THEN st.body_dates[1] ELSE st.published_at_meta

(* .replace(' | The Rundown AI', '').strip() *)
CleanTitle(t) ==
    IF t = NoneStr THEN ""
    ELSE IF t = "T | The Rundown AI" THEN "T" ELSE t

(* scrape_article_metadata after a successful fetch: None or the metadata. *)
ExtractMeta(html) ==
    IF html = <<>> THEN NoneVal
    ELSE LET st    == MetaParserFeed(ParserInit, html)
             raw   == get_best_date(st)
             title == CleanTitle(st.title)
         IN  IF title = "" THEN NoneVal
             ELSE [title |-> title,
                   published_at |-> IF raw = NoneVal THEN NoneVal
                                    ELSE parse_article_date(raw)]

RD_Start ==
    /\ pc = "rd_run"
    /\ rd' = [rd EXCEPT !.now = NowUtc, !.cutoff = MinusHours(NowUtc, WINDOW_HOURS),
                        !.articles = <<>>, !.scraped = <<>>]
    /\ pc' = "rd_fetch"
    /\ UNCHANGED <<clock, world, bb, files, errlog, net, orch>>

RD_FetchOk ==
    /\ pc = "rd_fetch" /\ homeNet = "ok"
    /\ rd' = [rd EXCEPT !.html = homeHtml]
    /\ net' = Append(net, <<"fetch_home">>)
    /\ clock' = clock + 1
    /\ pc' = "rd_links"
    /\ UNCHANGED <<world, bb, files, errlog, orch>>

(* fetch_url returns None: the error result is written and returned. *)
RD_FetchCaught ==
    /\ pc = "rd_fetch" /\ homeNet # "ok" /\ IsURLError(homeNet)
    /\ LET result == ErrorResult(rd.now, "Failed to fetch homepage")
       IN  /\ rd' = [rd EXCEPT !.result = result]
           /\ WriteFile("rundown.json", result)
           /\ orch' = [orch EXCEPT !.results = Append(@, result), !.rd_result = result]
    /\ errlog' = Append(errlog, LogLine("rundown", "Failed to fetch"))
    /\ net' = Append(net, <<"fetch_home">>)
    /\ clock' = clock + 1
    /\ pc' = "merge"
    /\ UNCHANGED <<world, bb>>

RD_FetchRaises ==
    /\ pc = "rd_fetch" /\ homeNet # "ok" /\ ~IsURLError(homeNet)
    /\ net' = Append(net, <<"fetch_home">>)
    /\ clock' = clock + 1
    /\ orch' = [orch EXCEPT !.raised = homeNet, !.raised_in = "rundown_ai"]
    /\ pc' = "raised"
    /\ UNCHANGED <<world, bb, rd, files, errlog>>

RD_ParseLinks ==
    /\ pc = "rd_links"
    /\ rd' = [rd EXCEPT !.article_urls = ArticleUrls(rd.html), !.i = 1]
    /\ pc' = "rd_loop"
    /\ UNCHANGED <<clock, world, bb, files, errlog, net, orch>>

(* The url of this pass of the for loop, and what fetching it does. *)
LoopUrl == rd.article_urls[rd.i]

InLoop == pc = "rd_loop" /\ rd.i <= Len(rd.article_urls)

Fetched == net' = Append(net, <<"fetch", LoopUrl>>) /\ clock' = clock + 1

(* time.sleep(0.5) at the end of the pass. *)
FetchedThenSlept ==
    /\ net' = net \o << <<"fetch", LoopUrl>>, <<"sleep">> >>
    /\ clock' = clock + 1

(* History: what scrape_article_metadata returned for a url. *)
Scraped(url, meta) == [url |-> url, meta |-> meta]

(* scrape_article_metadata raised something other than URLError: the loop's *)
(* except Exception logs it and goes on.                                    *)
RD_ArticleError ==
    /\ InLoop /\ pages[LoopUrl].net # "ok" /\ ~IsURLError(pages[LoopUrl].net)
    /\ Fetched
    /\ errlog' = Append(errlog, LogLine("rundown", "Unexpected error processing"))
    /\ rd' = [rd EXCEPT !.i = @ + 1]
    /\ UNCHANGED <<pc, world, bb, files, orch>>

(* fetch_url logged a URLError and returned None: meta is None. *)
RD_ArticleFetchFailed ==
    /\ InLoop /\ pages[LoopUrl].net # "ok" /\ IsURLError(pages[LoopUrl].net)
    /\ Fetched
    /\ errlog' = Append(errlog, LogLine("rundown", "Failed to fetch"))
    /\ rd' = [rd EXCEPT !.i = @ + 1]
    /\ UNCHANGED <<pc, world, bb, files, orch>>

(* No body or no title: meta is None. *)
RD_ArticleNoMeta ==
    /\ InLoop /\ pages[LoopUrl].net = "ok"
    /\ ExtractMeta(pages[LoopUrl].html) = NoneVal
    /\ Fetched
    /\ rd' = [rd EXCEPT !.i = @ + 1, !.scraped = Append(@, Scraped(LoopUrl, NoneVal))]
    /\ UNCHANGED <<pc, world, bb, files, errlog, orch>>

(* Faulty variant: an undated article is dated before the window. *)
ResolvedDateMutClock(meta) ==
    IF meta.published_at = NoneVal THEN DateTime(clock - WINDOW_HOURS * HourSecs - 1, 0)
    ELSE meta.published_at

(* The date the pass gives the article: the parsed one, or now. *)
ResolvedDate(meta) ==
    IF meta.published_at = NoneVal THEN rd.now ELSE meta.published_at

NoDateLog(meta) ==
    IF meta.published_at = NoneVal
    THEN <<LogLine("rundown", "No date found, including with caution")>>
    ELSE <<>>

(* Faulty variant: a record dated exactly at cutoff is dropped too. *)
OutsideWindowMutInclusive(pub_date, cutoff) == ~DtLess(cutoff, pub_date)

(* if pub_date < cutoff: continue *)
OutsideWindow(pub_date, cutoff) == DtLess(pub_date, cutoff)

RD_ArticleOutside ==
    /\ InLoop /\ pages[LoopUrl].net = "ok"
    /\ LET meta == ExtractMeta(pages[LoopUrl].html)
       IN  /\ meta # NoneVal
           /\ OutsideWindow(ResolvedDate(meta), rd.cutoff)
           /\ errlog' = errlog \o NoDateLog(meta)
           /\ rd' = [rd EXCEPT !.i = @ + 1, !.scraped = Append(@, Scraped(LoopUrl, meta))]
    /\ Fetched
    /\ UNCHANGED <<pc, world, bb, files, orch>>

RD_ArticleKept ==
    /\ InLoop /\ pages[LoopUrl].net = "ok"
    /\ LET meta == ExtractMeta(pages[LoopUrl].html)
       IN  /\ meta # NoneVal
           /\ ~OutsideWindow(ResolvedDate(meta), rd.cutoff)
           /\ errlog' = errlog \o NoDateLog(meta)
           /\ rd' = [rd EXCEPT !.i = @ + 1,
                       !.scraped = Append(@, Scraped(LoopUrl, meta)),
                       !.articles = Append(@, Article("rundown_ai", meta.title, LoopUrl,
                                                      ResolvedDate(meta)))]
    /\ FetchedThenSlept
    /\ UNCHANGED <<pc, world, bb, files, orch>>

(* After the loop: the result is written to rundown.json and returned. *)
RD_Save ==
    /\ pc = "rd_loop" /\ rd.i > Len(rd.article_urls)
    /\ LET result == SourceResult(rd.now, rd.articles)
       IN  /\ rd' = [rd EXCEPT !.result = result]
           /\ WriteFile("rundown.json", result)
           /\ orch' = [orch EXCEPT !.results = Append(@, result), !.rd_result = result]
    /\ pc' = "merge"
    /\ UNCHANGED <<clock, world, bb, errlog, net>>

----------------------------------------------------------------------------
(* run_scrapers.py *)

(* Faulty variant: a later article of an id replaces the earlier one. *)
RECURSIVE DedupMutKeepLast(_, _)
DedupMutKeepLast(merged, arts) ==
    IF arts = <<>> THEN merged
    ELSE LET a == Head(arts)
         IN  DedupMutKeepLast(
                 Append(SelectSeq(merged, LAMBDA m : m.id # a.id), a), Tail(arts))

(* The for loops of merge_and_dedup: the first article of each id, in order. *)
RECURSIVE Dedup(_, _)
Dedup(merged, arts) ==
    IF arts = <<>> THEN merged
    ELSE LET a == Head(arts)
         IN  Dedup(IF \E i \in 1..Len(merged) : merged[i].id = a.id
                   THEN merged ELSE Append(merged, a),
                   Tail(arts))

RECURSIVE Concat(_)
Concat(results) ==
    IF results = <<>> THEN <<>>
    ELSE Head(results).articles \o Concat(Tail(results))

(* a.get('published_at', '1970-01-01T00:00:00+00:00') *)
sort_key(a) == IF "published_at" \in DOMAIN a THEN a.published_at ELSE EPOCH_KEY

(* list.sort(key=sort_key, reverse=True): stable, keys compared as strings. *)
RECURSIVE InsertDesc(_, _)
InsertDesc(sorted, a) ==
    IF sorted = <<>> THEN <<a>>
    ELSE IF StrLess(sort_key(Head(sorted)), sort_key(a))
    THEN <<a>> \o sorted
    ELSE <<Head(sorted)>> \o InsertDesc(Tail(sorted), a)

RECURSIVE SortDesc(_, _)
SortDesc(sorted, arts) ==
    IF arts = <<>> THEN sorted
    ELSE SortDesc(InsertDesc(sorted, Head(arts)), Tail(arts))

merge_and_dedup(results) == SortDesc(<<>>, Dedup(<<>>, Concat(results)))

(* Faulty variant: the per-source counts are taken after the merge. *)
MergedFeedMutPostCounts(now, bb_result, rd_result, articles) ==
    [scraped_at |-> IsoFormat(now), window_hours |-> 24,
     article_count |-> Len(articles),
     sources |-> [bens_bites |-> Len(SelectSeq(articles, LAMBDA a : a.source = "bens_bites")),
                  rundown_ai |-> Len(SelectSeq(articles, LAMBDA a : a.source = "rundown_ai"))],
     articles |-> articles]

MergedFeed(now, bb_result, rd_result, articles) ==
    [scraped_at |-> IsoFormat(now), window_hours |-> 24,
     article_count |-> Len(articles),
     sources |-> [bens_bites |-> bb_result.article_count,
                  rundown_ai |-> rd_result.article_count],
     articles |-> articles]

OrchStart ==
    /\ pc = "start"
    /\ orch' = [orch EXCEPT !.now = NowUtc]
    /\ pc' = "bb_run"
    /\ UNCHANGED <<clock, world, bb, rd, files, errlog, net>>

(* merge_and_dedup, then all_articles.json is written. *)
Merge ==
    /\ pc = "merge"
    /\ LET merged == MergedFeed(orch.now, orch.bb_result, orch.rd_result,
                                merge_and_dedup(orch.results))
       IN  /\ orch' = [orch EXCEPT !.merged = merged]
           /\ WriteFile("all_articles.json", merged)
    /\ pc' = "done"
    /\ UNCHANGED <<clock, world, bb, rd, errlog, net>>

Next ==
    \/ OrchStart
    \/ BB_Start \/ BB_FetchOk \/ BB_FetchCaught \/ BB_FetchRaises
    \/ BB_Failed \/ BB_Parse \/ BB_Save
    \/ RD_Start \/ RD_FetchOk \/ RD_FetchCaught \/ RD_FetchRaises
    \/ RD_ParseLinks
    \/ RD_ArticleError \/ RD_ArticleFetchFailed \/ RD_ArticleNoMeta
    \/ RD_ArticleOutside \/ RD_ArticleKept
    \/ RD_Save
    \/ Merge

----------------------------------------------------------------------------
(* The inputs of a run: what the two sites serve. *)

MaxItems == 2

MaxTags == 2

MaxAnchors == 17

Slug(c) == <<"/", "p", "/", c>>

U_bb_a == BB_HOST \o Slug("a")

U_bb_b == BB_HOST \o Slug("b")

U_rd_a == HOME_URL \o Slug("a")

U_rd_b == HOME_URL \o Slug("b")

(* Feed dates, relative to the start of the run. *)
Rfc(wall, zone) == DateStr("a, d b Y H:M:S", "abbr", 2026, wall, zone)

H(n) == n * HourSecs

RssDates ==
    [in47h   |-> Rfc(Clock0 - H(47), ZNum(0)),
     atCut   |-> Rfc(Clock0 - H(48), ZName),
     tooOld  |-> Rfc(Clock0 - H(48) - 1, ZNum(0)),
     west    |-> Rfc(Clock0 - H(50), ZNum(-H(5))),
     east    |-> Rfc(Clock0 - H(40), ZNum(H(5))),
     mid     |-> Rfc(Clock0 - H(42), ZLit),
     noDow   |-> DateStr("d b Y H:M:S", "abbr", 2026, Clock0 - H(1), ZNum(0)),
     iso     |-> DateStr("Y-m-dTH:M:S", "-", 2026, Clock0 - H(1), ZLit),
     feb30   |-> Rfc(InvalidWall, ZNum(0))]

Item(title, link, pubDate) == [title |-> title, link |-> link, pubDate |-> pubDate]

RssItemSet ==
    { Item("T", U_bb_a, RssDates.in47h),
      Item("T2", U_bb_a, RssDates.atCut),
      Item("T", U_bb_b, RssDates.tooOld),
      Item("T", U_rd_a, RssDates.west),
      Item("T", U_bb_b, RssDates.east),
      Item("T", U_rd_b, RssDates.mid),
      Item("T", U_bb_b, RssDates.noDow),
      Item("Tiso", U_bb_b, RssDates.iso),
      Item("Tfeb30", U_bb_b, RssDates.feb30),
      Item("Tnone", U_bb_b, NoneVal),
      Item("", U_bb_b, RssDates.in47h),
      Item(NoneStr, U_bb_b, RssDates.in47h),
      Item("T", <<>>, RssDates.in47h) }

SeqsUpTo(S, n) == UNION { [1..k -> S] : k \in 0..n }

Feed(items) == [kind |-> "ok", items |-> items]

NoFeed == [kind |-> "nochannel", items |-> <<>>]

BadXml == [kind |-> "malformed", items |-> <<>>]

(* [net, xml] *)
RssWorld(n, xml) == [net |-> n, xml |-> xml]

RssRich ==
    { RssWorld(n, BadXml) : n \in NetOutcomes \ {"ok"} }
    \cup { RssWorld("ok", x) : x \in {NoFeed, BadXml} }
    \cup { RssWorld("ok", Feed(items)) : items \in SeqsUpTo(RssItemSet, MaxItems) }

RssSmall ==
    { RssWorld("URLError", BadXml), RssWorld("TimeoutError", BadXml),
      RssWorld("ok", Feed(<< Item("T", U_rd_a, RssDates.west) >>)),
      RssWorld("ok", Feed(<< Item("T", U_bb_a, RssDates.in47h),
                             Item("T", U_rd_b, RssDates.mid) >>)) }

(* Article pages. *)
Meta(name, content) == [ev |-> "meta", name |-> name, content |-> content]

(* A text node, and the element it is the content of ("body" stands for any *)
(* element rendered in the body; "title" and "script" are not).             *)
Data(frags) == [ev |-> "data", in |-> "body", frags |-> frags]

DataIn(where, frags) == [ev |-> "data", in |-> where, frags |-> frags]

Word == DateStr("word", "-", 0, InvalidWall, ZNone)

Human(shape, mon, year, day) == DateStr(shape, mon, year, day * DaySecs, ZNone)

Iso(year, wall, zone) == DateStr("Y-m-dTH:M:S", "-", year, wall, zone)

Feb20 == Human("M d, Y", "abbr", 2026, Day_2026_02_20)

Feb10Full == Human("M d, Y", "full", 2026, Day_2026_02_20 - 10)

Feb20NoComma == Human("M d Y", "abbr", 2026, Day_2026_02_20)

Feb20_1999 == Human("M d, Y", "abbr", 1999, 10642)

Feb30 == DateStr("M. d, Y", "abbr", 2026, InvalidWall, ZNone)

Stale2019 == Iso(2019, Day_2019_01_01 * DaySecs, ZLit)

TitleTag == Meta("og:title", "T | The Rundown AI")

Html ==
    [bodyOverStale |-> << TitleTag, Meta("article:published_time", Stale2019),
                          Data(<<Word, Feb20, Word>>) >>,
     bodyOverFresh |-> << Meta("article:published_time", Iso(2026, Clock0 - H(1), ZLit)),
                          TitleTag, Data(<<Word>>), Data(<<Feb10Full, Feb20>>) >>,
     bodyTwoNodes  |-> << TitleTag, Data(<<Feb20_1999, Feb20NoComma>>), Data(<<Feb10Full>>) >>,
     metaFresh     |-> << Meta("twitter:title", "T"), Meta("og:title", "T2"),
                          Meta("og:article:published_time", Iso(2026, Clock0 - H(10), ZNum(H(5)))),
                          Data(<<Word, Feb20_1999>>) >>,
     metaAtCutoff  |-> << TitleTag,
                          Meta("article:published_time", Iso(2026, Clock0 + 1 - H(48), ZLit)) >>,
     metaTooOld    |-> << TitleTag,
                          Meta("article:published_time", Iso(2026, Clock0 - H(48), ZLit)) >>,
     metaStale     |-> << TitleTag, Meta("description", "D"),
                          Meta("article:published_time", Stale2019) >>,
     metaEmpty     |-> << TitleTag, Meta("article:published_time", EmptyStr) >>,
     metaDateOnly  |-> << TitleTag,
                          Meta("article:published_time",
                               DateStr("Y-m-d", "-", 2026, Day_2026_02_20 * DaySecs, ZNone)) >>,
     bodyFeb30     |-> << TitleTag, Data(<<Feb30>>),
                          Meta("article:published_time", Iso(2026, Clock0 - H(1), ZLit)) >>,
     scriptDate    |-> << TitleTag, DataIn("script", <<Word, Feb10Full>>),
                          Data(<<Word, Feb20>>) >>,
     titleDate     |-> << DataIn("title", <<Feb20NoComma>>), TitleTag,
                          Meta("article:published_time", Stale2019) >>,
     noTitle       |-> << Meta("description", "D"), Data(<<Feb20>>) >>,
     blankTitle    |-> << Meta("og:title", ""), Meta("twitter:title", "T"), Data(<<Feb20>>) >>,
     empty         |-> << >>]

Page(n, html) == [net |-> n, html |-> html]

PageSet ==
    { Page("ok", Html[k]) : k \in DOMAIN Html }
    \cup { Page(n, <<>>) : n \in NetOutcomes \ {"ok"} }

PlainPage == Page("ok", Html.metaFresh)

(* Homepages. *)
Tag(tag, href) == [tag |-> tag, href |-> href]

TagSet ==
    { Tag("a", Slug("a")), Tag("a", Slug("b")), Tag("a", <<"/", "p", "/", "a", "\n">>),
      Tag("a", <<"/", "p", "/", "U">>), Tag("a", <<"/", "p", "/">>),
      Tag("a", <<"/", "a">>), Tag("a", <<"#", "/", "p", "/", "a">>),
      Tag("a", <<>>), Tag("div", Slug("a")) }

SlugChar(i) == Alphabet[4 + i]

(* A homepage of n anchors whose i-th href is slug number (i * step) mod m, *)
(* every gap-th one an href that is no article path.                       *)
LongHome(n, step, m, gap) ==
    [i \in 1..n |->
        IF gap > 0 /\ i % gap = 0 THEN Tag("a", <<"/", SlugChar(i)>>)
        ELSE Tag("a", Slug(SlugChar(1 + ((i * step) % m))))]

LongHomes ==
    { LongHome(n, step, m, gap) :
        n \in 0..MaxAnchors, step \in {1, 3}, m \in {3, MaxAnchors - 1}, gap \in {0, 5} }

(* Every url a homepage of the model can lead to. *)
AllUrls ==
    { HOME_URL \o Slug(SlugChar(i)) : i \in 1..(MaxAnchors + 1) }
    \cup { HOME_URL \o <<"/", "p", "/", "a", "\n">> }

PagesWith(pa, pb, other) ==
    [u \in AllUrls |-> IF u = U_rd_a THEN pa ELSE IF u = U_rd_b THEN pb ELSE other]

(* [net, html, pages] *)
RdWorld(n, html, pg) == [net |-> n, html |-> html, pages |-> pg]

RdFailed ==
    { RdWorld(n, <<>>, PagesWith(PlainPage, PlainPage, PlainPage)) :
        n \in NetOutcomes \ {"ok"} }

RdPagesRich ==
    { RdWorld("ok", << Tag("a", Slug("a")), Tag("a", Slug("b")) >>,
              PagesWith(pa, pb, PlainPage)) : pa \in PageSet, pb \in PageSet }

RdHomesRich ==
    { RdWorld("ok", html, PagesWith(pa, Page("ok", Html.bodyOverStale), PlainPage)) :
        html \in SeqsUpTo(TagSet, MaxTags),
        pa \in {PlainPage, Page("ok", Html.metaTooOld)} }

RdLong ==
    { RdWorld("ok", html, PagesWith(pa, pa, pa)) :
        html \in LongHomes, pa \in {PlainPage, Page("ok", Html.metaTooOld)} }

RdSmall ==
    RdFailed
    \cup { RdWorld("ok", << Tag("a", Slug("a")), Tag("a", Slug("b")) >>,
                   PagesWith(PlainPage, Page("ok", Html.metaStale), PlainPage)),
            RdWorld("ok", << Tag("a", Slug("b")), Tag("a", Slug("a")) >>,
                   PagesWith(Page("ok", Html.metaAtCutoff), Page("ok", Html.metaTooOld),
                             PlainPage)) }

Worlds ==
    (RssRich \X RdSmall) \cup (RssSmall \X (RdFailed \cup RdPagesRich \cup RdHomesRich \cup RdLong))

Init ==
    /\ pc = "start"
    /\ clock = Clock0
    /\ \E w \in Worlds :
        /\ rssNet = w[1].net /\ rssXml = w[1].xml
        /\ homeNet = w[2].net /\ homeHtml = w[2].html /\ pages = w[2].pages
    /\ bb = [now |-> NoneVal, cutoff |-> NoneVal, xml_content |-> NoneVal, result |-> NoneVal]
    /\ rd = [now |-> NoneVal, cutoff |-> NoneVal, html |-> <<>>, article_urls |-> <<>>,
             i |-> 0, articles |-> <<>>, scraped |-> <<>>, result |-> NoneVal]
    /\ files = <<>>
    /\ errlog = <<>>
    /\ net = <<>>
    /\ orch = [now |-> NoneVal, results |-> <<>>, bb_result |-> NoneVal,
               rd_result |-> NoneVal, merged |-> NoneVal, raised |-> "", raised_in |-> ""]

Spec == Init /\ [][Next]_vars

TypeOK == pc \in {"start", "bb_run", "bb_fetch", "bb_parse", "bb_failed", "bb_save",
                  "rd_run", "rd_fetch", "rd_links", "rd_loop", "merge", "done", "raised"}

----------------------------------------------------------------------------
(* Properties *)

Range(seq) == { seq[i] : i \in 1..Len(seq) }

BBReturned == bb.result # NoneVal

RDReturned == rd.result # NoneVal

(* The articles handed to merge_and_dedup, in adapter-run order. *)
MergeInput == orch.bb_result.articles \o orch.rd_result.articles

MergeOutput == orch.merged.articles

DuplicateInInput ==
    \E i, j \in 1..Len(MergeInput) : i < j /\ MergeInput[i].id = MergeInput[j].id

(* C1: the merged list holds no id twice, holds an article for every id and *)
(* every url of the inputs, and the article it holds for an id is the first *)
(* one with that id in adapter-run order (bens_bites, then rundown_ai).     *)
C1_DedupFirstSeen ==
    pc = "done" =>
        /\ \A i, j \in 1..Len(MergeOutput) :
              i # j => MergeOutput[i].id # MergeOutput[j].id
        /\ \A a \in Range(MergeInput) :
              \E o \in Range(MergeOutput) : o.id = a.id /\ o.url = a.url
        /\ \A o \in Range(MergeOutput) :
              \E k \in 1..Len(MergeInput) :
                  /\ MergeInput[k] = o
                  /\ \A l \in 1..(k - 1) : MergeInput[l].id # o.id

(* Both adapters returned an article for one url, with different fields;   *)
(* the merged list holds the RSS adapter's.                                *)
C1_Witness ==
    /\ pc = "done"
    /\ \E a \in Range(orch.bb_result.articles), b \in Range(orch.rd_result.articles) :
          /\ a.url = b.url /\ a.published_at # b.published_at
          /\ a \in Range(MergeOutput) /\ b \notin Range(MergeOutput)

(* C2: the merged list is non-increasing in published_at, compared as      *)
(* points in time.                                                          *)
C2_SortedByInstant ==
    pc = "done" =>
        \A i \in 1..(Len(MergeOutput) - 1) :
            IsoInstant(sort_key(MergeOutput[i])) >= IsoInstant(sort_key(MergeOutput[i + 1]))

IsErrorResult(r) ==
    /\ "error" \in DOMAIN r
    /\ r.article_count = 0
    /\ r.articles = <<>>

(* C3: an adapter run never raises to the orchestrator, and when its       *)
(* top-level fetch failed its result, also written to its file, is the     *)
(* error-flagged one with no articles.                                     *)
C3_AdapterAlwaysReturns ==
    /\ pc # "raised"
    /\ (BBReturned /\ rssNet # "ok") => IsErrorResult(bb.result)
    /\ (RDReturned /\ homeNet # "ok") => IsErrorResult(rd.result)
    /\ pc \in {"rd_run", "done"} => files["bens_bites.json"] = bb.result
    /\ pc \in {"merge", "done"} => files["rundown.json"] = rd.result

(* C4: when the RSS fetch fails the run is not aborted by it: the HTML     *)
(* adapter runs, and the merged file holds every article it returned and   *)
(* records bens_bites with count 0.                                        *)
C4_RssFailureIsolated ==
    rssNet # "ok" =>
        /\ ~(pc = "raised" /\ orch.raised_in = "bens_bites")
        /\ pc = "done" =>
              /\ IsErrorResult(orch.bb_result)
              /\ "all_articles.json" \in DOMAIN files
              /\ files["all_articles.json"].sources.bens_bites = 0
              /\ \A a \in Range(orch.rd_result.articles) :
                    a \in Range(files["all_articles.json"].articles)

(* What an article shows of the record it came from. *)
Shown(a) == <<a.url, a.title, IsoInstant(a.published_at)>>

(* A feed item that has a title, a link and a date parse_rss_date accepts, *)
(* and the point in time its date denotes (a date without offset is UTC).  *)
ItemDated(it) ==
    Truthy(it.title) /\ it.link # <<>> /\ parse_rss_date(it.pubDate) # NoneVal

ItemInstant(it) == it.pubDate.wall - it.pubDate.zone.off

ItemShown(it) == <<it.link, it.title, ItemInstant(it)>>

ShownSeq(arts) == [i \in 1..Len(arts) |-> Shown(arts[i])]

ItemShownSeq(items) == [i \in 1..Len(items) |-> ItemShown(items[i])]

CutoffInstant(now) == Instant(now) - WINDOW_HOURS * HourSecs

FeedItems == IF rssXml.kind = "ok" THEN rssXml.items ELSE <<>>

(* The date the HTML adapter compares for a scraped record. *)
ScrapedInstant(e) ==
    IF e.meta.published_at = NoneVal THEN Instant(rd.now) ELSE Instant(e.meta.published_at)

RdKept(e) ==
    \E a \in Range(rd.articles) :
        a.url = e.url /\ IsoInstant(a.published_at) = ScrapedInstant(e)

DatePositions(html, places) ==
    UNION { { <<i, j>> : j \in { j \in 1..Len(html[i].frags) :
                                   /\ html[i].frags[j].shape \in HumanShapes
                                   /\ html[i].frags[j].year \in 2000..2099 } } :
            i \in { i \in 1..Len(html) : html[i].ev = "data" /\ html[i].in \in places } }

Before(p, q) == p[1] < q[1] \/ (p[1] = q[1] /\ p[2] < q[2])

FirstDate(html, places) ==
    LET p == CHOOSE p \in DatePositions(html, places) :
                 \A q \in DatePositions(html, places) : q = p \/ Before(p, q)
    IN  html[p[1]].frags[p[2]]

(* The published-time meta tags of a page whose value holds a current-era year. *)
FreshMetaPositions(html) ==
    { i \in 1..Len(html) :
        /\ html[i].ev = "meta"
        /\ html[i].name \in {"article:published_time", "og:article:published_time"}
        /\ html[i].content.year \in 2020..2029 }

Absent == InvalidWall

(* The instant the heuristic priority gives a page, or Absent, when the    *)
(* text mined for dates is that of the elements in places.                 *)
HeuristicInstant(html, places) ==
    IF DatePositions(html, places) # {}
    THEN (IF FirstDate(html, places).wall = InvalidWall THEN Absent
          ELSE FirstDate(html, places).wall)
    ELSE IF FreshMetaPositions(html) # {}
    THEN LET c == html[CHOOSE i \in FreshMetaPositions(html) :
                       \A k \in FreshMetaPositions(html) : k <= i].content
         IN  c.wall - c.zone.off
    ELSE Absent

ExtractedInstant(meta) ==
    IF meta.published_at = NoneVal THEN Absent ELSE Instant(meta.published_at)

(* C6: the date extracted from an article page is the first date-like      *)
(* substring of its visible body text if there is one, whatever the        *)
(* published-time meta tag says; otherwise the meta tag's value if it      *)
(* holds a current-era year; otherwise absent.  Body "Feb 20, 2026" with   *)
(* meta 2019-01-01 gives 2026-02-20.                                       *)
C6_DateHeuristic ==
    \A e \in Range(rd.scraped) :
        e.meta # NoneVal =>
            /\ ExtractedInstant(e.meta) = HeuristicInstant(pages[e.url].html, {"body"})
            /\ pages[e.url].html = Html.bodyOverStale =>
                  e.meta.published_at = DateTime(Day_2026_02_20 * DaySecs, 0)

(* What the code does instead: the same priority, over every text node of  *)
(* the document (title and script content included).                       *)
AnyTextDateHeuristic ==
    \A e \in Range(rd.scraped) :
        e.meta # NoneVal =>
            /\ ExtractedInstant(e.meta)
                 = HeuristicInstant(pages[e.url].html, {"body", "title", "script"})
            /\ pages[e.url].html = Html.bodyOverStale =>
                  e.meta.published_at = DateTime(Day_2026_02_20 * DaySecs, 0)

CountLog(msg) == Len(SelectSeq(errlog, LAMBDA l : l.msg = msg))

UndatedItem(it) ==
    Truthy(it.title) /\ it.link # <<>> /\ parse_rss_date(it.pubDate) = NoneVal

(* C7: a record whose date cannot be resolved is dropped and logged by the *)
(* RSS adapter; the HTML adapter dates it now, logs a note and keeps it.   *)
C7_UndatedRecords ==
    /\ (BBReturned /\ rssNet = "ok") =>
          /\ \A it \in Range(FeedItems) :
                UndatedItem(it) =>
                    \A a \in Range(bb.result.articles) : a.title # it.title
          /\ CountLog("Could not parse date") = Len(SelectSeq(FeedItems, UndatedItem))
    /\ rd.now # NoneVal =>
          /\ \A e \in Range(rd.scraped) :
                (e.meta # NoneVal /\ e.meta.published_at = NoneVal) =>
                    \E a \in Range(rd.articles) :
                        a.url = e.url /\ a.published_at = IsoFormat(rd.now)
          /\ CountLog("No date found, including with caution")
               = Len(SelectSeq(rd.scraped,
                               LAMBDA e : e.meta # NoneVal /\ e.meta.published_at = NoneVal))

(* The feed held an undated item, which was logged and is in no result;    *)
(* an article page gave no date and its article is dated now.              *)
C7_Witness ==
    /\ pc = "done"
    /\ \E it \in Range(FeedItems) : UndatedItem(it)
    /\ CountLog("Could not parse date") >= 1
    /\ \E e \in Range(rd.scraped) :
          /\ e.meta # NoneVal /\ e.meta.published_at = NoneVal
          /\ \E a \in Range(orch.merged.articles) :
                a.url = e.url /\ a.published_at = IsoFormat(rd.now)

(* The anchors of the homepage that carry an article path not carried by   *)
(* an earlier anchor.                                                      *)
IsArticleAnchor(t) == t.tag = "a" /\ t.href # <<>> /\ IsArticlePath(t.href)

FirstOccurrences ==
    { i \in 1..Len(homeHtml) :
        /\ IsArticleAnchor(homeHtml[i])
        /\ \A j \in 1..(i - 1) :
              ~(homeHtml[j].tag = "a" /\ homeHtml[j].href = homeHtml[i].href) }

(* The k-th of them in homepage order. *)
KthOccurrence(k) ==
    CHOOSE i \in FirstOccurrences :
        Cardinality({ j \in FirstOccurrences : j < i }) = k - 1

FetchEvents == SelectSeq(net, LAMBDA e : e[1] = "fetch")

FetchedUrls == [i \in 1..Len(FetchEvents) |-> FetchEvents[i][2]]

(* C8: the candidate list is the article-path hrefs of the homepage, each  *)
(* at its first occurrence only, in homepage order, cut to the first 15;   *)
(* the article pages fetched are these, in this order, at most 15.         *)
C8_CandidateLinks ==
    /\ (pc \in {"rd_loop", "merge", "done"} /\ homeNet = "ok") =>
          /\ Len(rd.article_urls)
               = (IF Cardinality(FirstOccurrences) < 15
                  THEN Cardinality(FirstOccurrences) ELSE 15)
          /\ \A k \in 1..Len(rd.article_urls) :
                rd.article_urls[k] = HOME_URL \o homeHtml[KthOccurrence(k)].href
          /\ FetchedUrls = SubSeq(rd.article_urls, 1, rd.i - 1)
          /\ pc \in {"merge", "done"} => FetchedUrls = rd.article_urls
    /\ Len(FetchedUrls) <= 15

(* A homepage with more than 15 distinct article paths and a repeated one: *)
(* 15 pages were fetched.                                                  *)
C8_Witness ==
    /\ pc = "done"
    /\ Cardinality(FirstOccurrences) > 15
    /\ \E i \in 1..Len(homeHtml) : IsArticleAnchor(homeHtml[i]) /\ i \notin FirstOccurrences
    /\ Len(FetchedUrls) = 15
    /\ FetchedUrls = rd.article_urls

(* C9: between two consecutive article-page fetches of a run there is a    *)
(* delay, whatever became of the earlier article.                          *)
C9_DelayBetweenFetches ==
    \A k \in 1..(Len(net) - 1) : ~(net[k][1] = "fetch" /\ net[k + 1][1] = "fetch")

(* C10: article_count is the length of articles in each adapter's result   *)
(* and in the merged feed; the merged feed's sources are the adapters'     *)
(* counts before the merge, so the merged count is at most their sum, and  *)
(* less exactly when the merge removed a duplicate id.                     *)
C10_Counts ==
    /\ BBReturned => bb.result.article_count = Len(bb.result.articles)
    /\ RDReturned => rd.result.article_count = Len(rd.result.articles)
    /\ pc = "done" =>
          LET m == files["all_articles.json"]
          IN  /\ m = orch.merged
              /\ m.article_count = Len(m.articles)
              /\ m.sources.bens_bites = Len(bb.result.articles)
              /\ m.sources.rundown_ai = Len(rd.result.articles)
              /\ m.article_count <= m.sources.bens_bites + m.sources.rundown_ai
              /\ (m.article_count < m.sources.bens_bites + m.sources.rundown_ai)
                    <=> DuplicateInInput

(* A merge that removed a duplicate: fewer merged articles than the sum of *)
(* the two sources' counts.                                                *)
C10_Witness ==
    /\ pc = "done"
    /\ DuplicateInInput
    /\ orch.merged.sources.bens_bites >= 1 /\ orch.merged.sources.rundown_ai >= 1
    /\ orch.merged.article_count
         < orch.merged.sources.bens_bites + orch.merged.sources.rundown_ai

====
